---- MODULE Spec2Model ----
(***************************************************************************)
(* Calculator with history: the arithmetic evaluator (calculator.py), the  *)
(* bounded operation log (history.py), the JSON persistence adapter        *)
(* (persistence.py) and the facade composing them (main.py).               *)
(*                                                                         *)
(* Two facades share one backing path, as in the integration tests, where  *)
(* one facade saves and a freshly constructed one loads (Spec).  A facade  *)
(* without a persistence file is called with every arithmetic method and   *)
(* every query (SpecCalc), a facade with the default capacity collects     *)
(* results that floating-point division has rounded (SpecStats), and a     *)
(* facade with a persistence file runs beside one without (SpecMixed).     *)
(***************************************************************************)
EXTENDS Integers, Sequences, FiniteSets, TLC

(***************************************************************************)
(* Bounds of the model.                                                    *)
(***************************************************************************)
\* largest capacity (History.max_size) a facade's log is configured with
MaxCapacity == 2
\* number of readings of datetime.now(), i.e. of records ever created
MaxOps == 3

\* readings of the clock per second: a reading falls on a whole second
\* (microsecond = 0) or between two seconds (microsecond # 0)
TicksPerSec == 2
\* significant bits of the mantissa of a float
MantissaBits == 5

Facades == {1, 2}

\* History.max_size when the facade constructs its own History()
DefaultMaxSize == 100

(***************************************************************************)
(* Numbers.  A Python number is an int or a float; its value is kept as a  *)
(* reduced fraction num/den.  den = 0 stands for a float infinity.  An int *)
(* is exact.  A float is a binary floating-point number: the result of an  *)
(* operation is the exact result rounded to the nearest number with        *)
(* MantissaBits significant bits, a tie going to the even mantissa.        *)
(* CPython's float keeps 53 bits; 53 and the bound below leave the same    *)
(* remainder modulo 4, the period of the binary expansions of 1/5 and      *)
(* 1/10, so that these quotients round the same way in both.  The exponent *)
(* is not bounded: overflow to infinity and subnormals are not modelled.   *)
(***************************************************************************)
Abs(n) == IF n < 0 THEN -n ELSE n

RECURSIVE GCD(_, _)
GCD(a, b) == IF b = 0 THEN a ELSE GCD(b, a % b)

\* the float nearest to (a / d) * (up / down), for a, d > 0 and up, down
\* powers of two, as <<numerator, denominator>>
RECURSIVE Nearest(_, _, _, _)
Nearest(a, d, up, down) ==
    IF a >= d * 2^MantissaBits THEN Nearest(a, 2 * d, 2 * up, down)
    ELSE IF a < d * 2^(MantissaBits - 1) THEN Nearest(2 * a, d, up, 2 * down)
    ELSE LET m == a \div d
             r == a % d
         IN  IF 2 * r > d \/ (2 * r = d /\ m % 2 = 1)
             THEN <<(m + 1) * up, down>>
             ELSE <<m * up, down>>

Mk(typ, n, d) ==
    IF d = 0 THEN [typ |-> "float", num |-> (IF n < 0 THEN -1 ELSE 1), den |-> 0]
    ELSE LET s == IF (n < 0) # (d < 0) THEN -1 ELSE 1
             q == IF typ = "float" /\ n # 0
                  THEN Nearest(Abs(n), Abs(d), 1, 1)
                  ELSE <<Abs(n), Abs(d)>>
             g == GCD(q[1], q[2])
         IN  [typ |-> typ, num |-> (s * q[1]) \div g, den |-> q[2] \div g]

PyInt(n) == Mk("int", n, 1)
PyFloat(n, d) == Mk("float", n, d)
Inf == Mk("float", 1, 0)

\* isinstance(x, int)
IsInt(x) == x.typ = "int"
\* math.isinf(x)
IsInf(x) == x.den = 0
\* x < 0
IsNegative(x) == x.num < 0
\* x == 0
IsZero(x) == x.num = 0 /\ x.den # 0
\* type of the result of a binary operator: int only when both are int
Coerce(a, b) == IF IsInt(a) /\ IsInt(b) THEN "int" ELSE "float"

RECURSIVE IPow(_, _)
IPow(b, e) == IF e = 0 THEN 1 ELSE b * IPow(b, e - 1)

\* integer square root of a perfect square (the inputs drawn below are
\* perfect squares, so that math.sqrt is exact)
ISqrt(n) == CHOOSE r \in 0..n : r * r = n

\* a call on a facade and how it ended: the method, its arguments, the
\* fault of the environment it met, and the value returned or the
\* exception raised
Ret(f, call, args, outcome, fault) ==
    [facade |-> f, call |-> call, args |-> args, fault |-> fault,
     status |-> outcome.status,
     value |-> IF outcome.status = "ok" THEN outcome.value ELSE FALSE,
     exc |-> IF outcome.status = "raise" THEN outcome.exc ELSE ""]

\* the outcome of a method: the value returned or the exception raised
Ok(v) == [status |-> "ok", value |-> v]
Raise(e) == [status |-> "raise", exc |-> e]

(***************************************************************************)
(* calculator.py: the arithmetic of class Calculator.  Each operator gives *)
(* the outcome of the method: the value returned or the exception raised.  *)
(***************************************************************************)
Calculator_add(a, b) ==
    Ok(Mk(Coerce(a, b), a.num * b.den + b.num * a.den, a.den * b.den))

Calculator_subtract(a, b) ==
    Ok(Mk(Coerce(a, b), a.num * b.den - b.num * a.den, a.den * b.den))

Calculator_multiply(a, b) ==
    Ok(Mk(Coerce(a, b), a.num * b.num, a.den * b.den))

Calculator_divide(a, b) ==
    IF IsZero(b) THEN Raise("ZeroDivisionError")
    ELSE Ok(Mk("float", a.num * b.den, a.den * b.num))

\* base ** exponent for an exponent of integral value or of value k/2
Pow(base, exponent) ==
    IF IsInf(base) THEN Ok(Inf)
    ELSE IF exponent.den = 1
    THEN IF exponent.num >= 0
         THEN Ok(Mk(Coerce(base, exponent),
                    IPow(base.num, exponent.num), IPow(base.den, exponent.num)))
         ELSE IF IsZero(base) THEN Raise("ZeroDivisionError")
         ELSE Ok(Mk("float", IPow(base.den, -exponent.num),
                             IPow(base.num, -exponent.num)))
    ELSE IF exponent.num < 0 /\ IsZero(base) THEN Raise("ZeroDivisionError")
    ELSE LET k == Abs(exponent.num)
             n == IPow(ISqrt(base.num), k)
             d == IPow(ISqrt(base.den), k)
         IN  IF exponent.num >= 0 THEN Ok(Mk("float", n, d))
             ELSE Ok(Mk("float", d, n))

Calculator_power(base, exponent) ==
    IF IsNegative(base) /\ ~IsInt(exponent)
    THEN Raise("ValueError")
    ELSE LET r == Pow(base, exponent)
         IN  IF r.status = "raise" THEN r
             ELSE IF IsInf(r.value) THEN Raise("ValueError")
             ELSE r

Calculator_square_root(number) ==
    IF IsNegative(number) THEN Raise("ValueError")
    ELSE Ok(Mk("float", ISqrt(number.num), ISqrt(number.den)))

(***************************************************************************)
(* Timestamps.  A datetime has a second and a microsecond; its ISO text is *)
(* "...:SS" when the microsecond is 0 and "...:SS.ffffff" otherwise, kept  *)
(* here as the sequence of the numeric fields the text spells out.  Any    *)
(* other text is not an ISO timestamp.                                     *)
(***************************************************************************)
datetime(sec, usec) == [typ |-> "datetime", sec |-> sec, usec |-> usec, text |-> <<>>]
str(text) == [typ |-> "str", sec |-> 0, usec |-> 0, text |-> text]

\* datetime.now() at the given reading of the clock
now(tick) == datetime(tick \div TicksPerSec,
                      (tick % TicksPerSec) * (1000000 \div TicksPerSec))

\* isoformat that writes whole seconds only
isoformat_seconds(dt) == str(<<dt.sec>>)

\* datetime.isoformat()
isoformat(dt) == str(IF dt.usec = 0 THEN <<dt.sec>> ELSE <<dt.sec, dt.usec>>)

\* datetime.fromisoformat(s)
fromisoformat(s) ==
    IF Len(s.text) = 1 THEN Ok(datetime(s.text[1], 0))
    ELSE IF Len(s.text) = 2 /\ s.text[2] \in 0..999999
         THEN Ok(datetime(s.text[1], s.text[2]))
    ELSE Raise("ValueError")

(***************************************************************************)
(* Values held in a log or in a JSON array.  kind "record" is a dict with  *)
(* the four record keys, kind "object" a dict with none of them, kind      *)
(* "scalar" a JSON number.                                                 *)
(***************************************************************************)
NoStamp == str(<<>>)
Zero == PyInt(0)
JunkObject == [kind |-> "object", timestamp |-> NoStamp, operation |-> "",
               operands |-> <<>>, result |-> Zero]
Scalar == [kind |-> "scalar", timestamp |-> NoStamp, operation |-> "",
           operands |-> <<>>, result |-> Zero]

\* 'timestamp' in op
HasTimestamp(op) == op.kind = "record"

(***************************************************************************)
(* history.py: class History                                               *)
(***************************************************************************)
Reverse(s) == [i \in 1..Len(s) |-> s[Len(s) + 1 - i]]

\* NewEntry storing the operands in reverse order
NewEntry_reversed(operation, operands, result, stamp) ==
    [kind |-> "record", timestamp |-> stamp, operation |-> operation,
     operands |-> Reverse(operands), result |-> result]

\* the entry built by add_operation
NewEntry(operation, operands, result, stamp) ==
    [kind |-> "record", timestamp |-> stamp, operation |-> operation,
     operands |-> operands, result |-> result]

\* add_operation evicting with pop() instead of pop(0)
add_operation_pop_last(ops, max, operation, operands, result, stamp) ==
    LET appended == Append(ops, NewEntry(operation, operands, result, stamp))
    IN  IF Len(appended) > max THEN SubSeq(appended, 1, Len(appended) - 1)
        ELSE appended

\* self.operations after add_operation
add_operation(ops, max, operation, operands, result, stamp) ==
    LET appended == Append(ops, NewEntry(operation, operands, result, stamp))
    IN  IF Len(appended) > max THEN Tail(appended) ELSE appended

\* the slice self.operations[:count], taken from the oldest end
LastSlice_oldest(ops, count) ==
    IF count >= Len(ops) THEN ops ELSE SubSeq(ops, 1, count)

\* self.operations[-count:] for count > 0
LastSlice(ops, count) ==
    IF count >= Len(ops) THEN ops
    ELSE SubSeq(ops, Len(ops) - count + 1, Len(ops))

get_last_operations(ops, count) ==
    IF count <= 0 THEN <<>> ELSE Reverse(LastSlice(ops, count))

get_all_operations(ops) == Reverse(ops)

get_operation_count(ops) == Len(ops)

\* op['operation'] and op['result'] find their key
HasKeys(op) == op.kind = "record"

\* search_operations(operation_type): the comprehension reads
\* op['operation'] of every element and raises KeyError where it is missing
search_operations(ops, operation_type) ==
    IF \E i \in 1..Len(ops) : ~HasKeys(ops[i]) THEN Raise("KeyError")
    ELSE Ok(Reverse(SelectSeq(ops, LAMBDA op : op.operation = operation_type)))

\* None
None == [typ |-> "NoneType", num |-> 0, den |-> 1]

\* a < b for finite numbers
Less(a, b) == a.num * b.den < b.num * a.den

\* sum(results): the elements are added to 0 from left to right
RECURSIVE py_sum(_, _)
py_sum(start, results) ==
    IF results = <<>> THEN start
    ELSE LET x == Head(results)
         IN  py_sum(Mk(Coerce(start, x), start.num * x.den + x.num * start.den,
                    start.den * x.den),
                 Tail(results))

\* max(results): the first of the largest elements
py_max(results) ==
    results[CHOOSE i \in 1..Len(results) :
                /\ \A j \in 1..Len(results) : ~Less(results[i], results[j])
                /\ \A j \in 1..(i - 1) : Less(results[j], results[i])]

\* min(results): the first of the smallest elements
py_min(results) ==
    results[CHOOSE i \in 1..Len(results) :
                /\ \A j \in 1..Len(results) : ~Less(results[j], results[i])
                /\ \A j \in 1..(i - 1) : Less(results[i], results[j])]

\* get_statistics(): the loop reads op['operation'] and op['result'] of
\* every element and raises KeyError where they are missing
History_get_statistics(ops) ==
    IF ops = <<>>
    THEN Ok([total_operations |-> 0,
             operation_types |-> [t \in {} |-> 0],
             average_result |-> None, max_result |-> None, min_result |-> None])
    ELSE IF \E i \in 1..Len(ops) : ~HasKeys(ops[i]) THEN Raise("KeyError")
    ELSE LET results == [i \in 1..Len(ops) |-> ops[i].result]
             total == py_sum(Zero, results)
         IN  Ok([total_operations |-> Len(ops),
                 operation_types |->
                     [t \in { ops[i].operation : i \in 1..Len(ops) } |->
                         Cardinality({ i \in 1..Len(ops) : ops[i].operation = t })],
                 average_result |-> Mk("float", total.num, total.den * Len(results)),
                 max_result |-> py_max(results),
                 min_result |-> py_min(results)])

\* a query that reverses the list in place: self.operations.reverse()
QueryLog_reverse(ops) == Reverse(ops)

\* self.operations after get_last_operations, get_all_operations,
\* search_operations, get_operation_count or get_statistics: they slice or
\* iterate the list and assign nothing
QueryLog(ops) == ops

(***************************************************************************)
(* persistence.py: class HistoryPersistence.  The backing path is absent,  *)
(* a file holding a document, or something that cannot be opened as a file *)
(* (a directory).  A document is a JSON array, another JSON value, or text *)
(* that is not JSON.                                                       *)
(***************************************************************************)
Array(items) == [kind |-> "array", items |-> items]
NumberDoc == [kind |-> "number", items |-> <<>>]
Garbage == [kind |-> "garbage", items |-> <<>>]

Absent == [state |-> "absent", doc |-> Garbage]
Directory == [state |-> "directory", doc |-> Garbage]
File(doc) == [state |-> "file", doc |-> doc]

\* one element of serializable_ops
Serialize(op) ==
    IF HasTimestamp(op) /\ op.timestamp.typ = "datetime"
    THEN [op EXCEPT !.timestamp = isoformat(op.timestamp)]
    ELSE op

\* save_history that lets the I/O error escape
save_history_uncaught(ops, file, fault) ==
    LET serializable_ops == [i \in 1..Len(ops) |-> Serialize(ops[i])]
    IN  IF file.state = "directory" \/ fault = "open"
        THEN [outcome |-> Raise("OSError"), file |-> file]
        ELSE IF fault = "write"
        THEN [outcome |-> Raise("OSError"), file |-> File(Garbage)]
        ELSE [outcome |-> Ok(TRUE), file |-> File(Array(serializable_ops))]

\* save_history that appends to the document already in the file
save_history_append(ops, file, fault) ==
    LET serializable_ops == [i \in 1..Len(ops) |-> Serialize(ops[i])]
        kept == IF file.state = "file" /\ file.doc.kind = "array"
                THEN file.doc.items ELSE <<>>
    IN  IF file.state = "directory" \/ fault = "open"
        THEN [outcome |-> Ok(FALSE), file |-> file]
        ELSE IF fault = "write"
        THEN [outcome |-> Ok(FALSE), file |-> File(Garbage)]
        ELSE [outcome |-> Ok(TRUE), file |-> File(Array(kept \o serializable_ops))]

\* save_history(operations) under an I/O fault of the environment:
\* "open" fails before anything is written, "write" fails after the file
\* was truncated and partly written.  Gives the outcome and the new file.
save_history(ops, file, fault) ==
    LET serializable_ops == [i \in 1..Len(ops) |-> Serialize(ops[i])]
    IN  IF file.state = "directory" \/ fault = "open"
        THEN [outcome |-> Ok(FALSE), file |-> file]
        ELSE IF fault = "write"
        THEN [outcome |-> Ok(FALSE), file |-> File(Garbage)]
        ELSE [outcome |-> Ok(TRUE), file |-> File(Array(serializable_ops))]

\* the timestamp conversion of load_history for one element of the array
Deserialize(op) ==
    IF op.kind = "scalar" THEN Raise("TypeError")
    ELSE IF HasTimestamp(op) /\ op.timestamp.typ = "str"
    THEN LET t == fromisoformat(op.timestamp)
         IN  IF t.status = "raise" THEN t
             ELSE Ok([op EXCEPT !.timestamp = t.value])
    ELSE Ok(op)

\* load_history() under an I/O fault of the environment ("read")
load_history(file, fault) ==
    IF file.state = "absent" THEN Ok(<<>>)
    ELSE IF file.state = "directory" \/ fault = "read" THEN Ok(<<>>)
    ELSE IF file.doc.kind = "garbage" THEN Ok(<<>>)
    ELSE IF file.doc.kind = "number" THEN Raise("TypeError")
    ELSE LET items == file.doc.items
             conv == [i \in 1..Len(items) |-> Deserialize(items[i])]
         IN  IF \E i \in 1..Len(items) : conv[i].status = "raise"
             THEN LET first == CHOOSE i \in 1..Len(items) :
                                  /\ conv[i].status = "raise"
                                  /\ \A j \in 1..(i - 1) : conv[j].status = "ok"
                  IN  conv[first]
             ELSE Ok([i \in 1..Len(items) |-> conv[i].value])

file_exists(file) == file.state # "absent"

\* delete_file that lets the error of unlink escape
delete_file_uncaught(file, fault) ==
    IF ~file_exists(file) THEN [outcome |-> Ok(FALSE), file |-> file]
    ELSE IF file.state = "directory" \/ fault = "unlink"
    THEN [outcome |-> Raise("OSError"), file |-> file]
    ELSE [outcome |-> Ok(TRUE), file |-> Absent]

\* delete_file() under an I/O fault of the environment ("unlink"); a
\* directory cannot be unlinked.  Gives the outcome and the new file.
delete_file(file, fault) ==
    IF ~file_exists(file) THEN [outcome |-> Ok(FALSE), file |-> file]
    ELSE IF file.state = "directory" \/ fault = "unlink"
    THEN [outcome |-> Ok(FALSE), file |-> file]
    ELSE [outcome |-> Ok(TRUE), file |-> Absent]

\* stat().st_size, in units of the model: two for the delimiters of the
\* document and one for each element it holds
st_size(file) == Len(file.doc.items) + 2

\* get_file_size that asks for the size without looking whether the path
\* exists
get_file_size_unchecked(file) == st_size(file)

get_file_size(file) == IF file_exists(file) THEN st_size(file) ELSE 0

(***************************************************************************)
(* State                                                                   *)
(***************************************************************************)
VARIABLES
    last_result,   \* Calculator.last_result of each facade
    max_size,      \* History.max_size of each facade
    persistence,   \* whether the facade was given a persistence file
    operations,    \* History.operations of each facade, oldest first
    file,          \* what the shared backing path holds
    clock,         \* readings of datetime.now() taken so far
    ret,           \* the call made by the last step and its outcome
    applied,       \* history: entries appended to the log since it was last
                   \*          empty, kept while no load replaced the log
    loaded,        \* history: a load replaced the log since it was last empty
    saved          \* history: the log written by the latest successful save,
                   \*          valid while nothing else wrote the path since;
                   \*          prior: an earlier save had written another log;
                   \*          removed: delete_file removed the path and
                   \*          nothing has written it since

vars == <<last_result, max_size, persistence, operations, file, clock, ret,
          applied, loaded, saved>>

\* operand pairs the binary operations are called with
Pairs == { <<PyInt(4), PyInt(-1)>> }
\* a pair whose quotient, one tenth, is no binary fraction
Tenth == <<PyInt(1), PyInt(10)>>
\* a pair with a zero divisor
ZeroDivisor == <<PyInt(4), PyInt(0)>>
\* further operand pairs of power: a fractional exponent of a positive and
\* of a negative base, a negative exponent of zero, an infinite base
PowerPairs == { <<PyInt(4), PyFloat(1, 2)>>, <<PyInt(-1), PyFloat(1, 2)>>,
                <<PyInt(0), PyInt(-1)>>, <<Inf, PyInt(2)>> }
\* operands of square_root
Radicands == { PyInt(4), PyInt(-1) }
\* arguments of get_history
Counts == { 0, 1, 10 }
\* operation tags searched for: two that occur in logs, one that never does
Names == { "add", "square_root", "modulo" }
\* faults of the file system during a save and during a load
SaveFaults == { "none", "open", "write" }
LoadFaults == { "none", "read" }
\* faults of the file system during a removal
DeleteFaults == { "none", "unlink" }

\* a record whose timestamp text is not an ISO timestamp
BadStampRecord == NewEntry("add", <<PyInt(1), PyInt(2)>>, PyInt(3), str(<<>>))
\* what a program other than the facades may leave at the path
ExternalFiles == { File(Garbage), File(NumberDoc), File(Array(<<Scalar>>)),
                   File(Array(<<JunkObject>>)), File(Array(<<BadStampRecord>>)),
                   Directory }

\* no save has written what the path holds
NothingSaved == [valid |-> FALSE, ops |-> <<>>, prior |-> FALSE, removed |-> FALSE]

\* state shared by the scenarios after the facades are constructed
Constructed ==
    /\ last_result = [f \in Facades |-> PyInt(0)]
    /\ operations = [f \in Facades |-> <<>>]
    /\ file = Absent
    /\ clock = 0
    /\ ret = Ret(0, "init", <<>>, Ok(FALSE), "none")
    /\ applied = [f \in Facades |-> <<>>]
    /\ loaded = [f \in Facades |-> FALSE]
    /\ saved = NothingSaved

\* two facades on the same persistence file, the second with the smaller log
Init ==
    /\ Constructed
    /\ max_size = [f \in Facades |-> IF f = 1 THEN MaxCapacity ELSE MaxCapacity - 1]
    /\ persistence = [f \in Facades |-> TRUE]

\* facades without a persistence file, with logs of any capacity
InitCalc ==
    /\ Constructed
    /\ max_size \in [Facades -> 1..MaxCapacity]
    /\ persistence = [f \in Facades |-> FALSE]

\* a facade as CalculatorWithHistory() constructs it: no persistence file
\* and a log of the default capacity
InitStats ==
    /\ Constructed
    /\ max_size = [f \in Facades |-> DefaultMaxSize]
    /\ persistence = [f \in Facades |-> FALSE]

\* the first facade with the persistence file, the second without one, and
\* logs of the same capacity
InitMixed ==
    /\ Constructed
    /\ max_size = [f \in Facades |-> MaxCapacity]
    /\ persistence = [f \in Facades |-> f = 1]

(***************************************************************************)
(* main.py: class CalculatorWithHistory                                    *)
(***************************************************************************)
\* FacadeLog recording the call before the evaluator has accepted it
FacadeLog_record_first(ops, max, operation, operands, outcome, stamp) ==
    add_operation(ops, max, operation, operands,
                  IF outcome.status = "ok" THEN outcome.value ELSE Zero, stamp)

\* self.history.operations after an arithmetic method of the facade whose
\* evaluator call had the given outcome
FacadeLog(ops, max, operation, operands, outcome, stamp) ==
    IF outcome.status = "ok"
    THEN add_operation(ops, max, operation, operands, outcome.value, stamp)
    ELSE ops

\* an evaluator that forgets its last result when a call fails
LastResult_reset(last, outcome) ==
    IF outcome.status = "ok" THEN outcome.value ELSE Zero

\* Calculator.last_result after the evaluator call
LastResult(last, outcome) ==
    IF outcome.status = "ok" THEN outcome.value ELSE last

\* the body shared by the six arithmetic methods: evaluate, then record
Perform(f, operation, operands, outcome) ==
    /\ outcome.status = "ok" => clock < MaxOps
    /\ last_result' = [last_result EXCEPT ![f] = LastResult(@, outcome)]
    /\ operations' = [operations EXCEPT ![f] =
           FacadeLog(@, max_size[f], operation, operands, outcome, now(clock))]
    /\ clock' = IF outcome.status = "ok" THEN clock + 1 ELSE clock
    /\ ret' = Ret(f, operation, operands, outcome, "none")
    /\ applied' = IF outcome.status = "ok" /\ ~loaded[f]
                  THEN [applied EXCEPT ![f] = Append(@,
                           NewEntry(operation, operands, outcome.value, now(clock)))]
                  ELSE applied
    /\ UNCHANGED <<max_size, persistence, file, loaded, saved>>

add(f, a, b) == Perform(f, "add", <<a, b>>, Calculator_add(a, b))

subtract(f, a, b) == Perform(f, "subtract", <<a, b>>, Calculator_subtract(a, b))

multiply(f, a, b) == Perform(f, "multiply", <<a, b>>, Calculator_multiply(a, b))

divide(f, a, b) == Perform(f, "divide", <<a, b>>, Calculator_divide(a, b))

power(f, base, exponent) ==
    Perform(f, "power", <<base, exponent>>, Calculator_power(base, exponent))

square_root(f, number) ==
    Perform(f, "square_root", <<number>>, Calculator_square_root(number))

\* the body shared by the calls that read the log of a facade
Query(f, call, args, outcome) ==
    /\ operations' = [operations EXCEPT ![f] = QueryLog(@)]
    /\ ret' = Ret(f, call, args, outcome, "none")
    /\ UNCHANGED <<last_result, max_size, persistence, file, clock,
                   applied, loaded, saved>>

get_history(f, count) ==
    Query(f, "get_history", <<PyInt(count)>>,
          Ok(get_last_operations(operations[f], count)))

get_statistics(f) ==
    Query(f, "get_statistics", <<>>, History_get_statistics(operations[f]))

\* calc.history.get_all_operations()
call_get_all_operations(f) ==
    Query(f, "get_all_operations", <<>>, Ok(get_all_operations(operations[f])))

\* calc.history.get_operation_count()
call_get_operation_count(f) ==
    Query(f, "get_operation_count", <<>>, Ok(get_operation_count(operations[f])))

\* calc.history.search_operations(operation_type)
call_search_operations(f, operation_type) ==
    Query(f, "search_operations", <<operation_type>>,
          search_operations(operations[f], operation_type))

\* clear_history that keeps the newest record: del self.operations[:-1]
clear_history_keep_newest(f) ==
    /\ operations' = [operations EXCEPT ![f] = LastSlice(@, 1)]
    /\ ret' = Ret(f, "clear_history", <<>>, Ok(FALSE), "none")
    /\ applied' = [applied EXCEPT ![f] = <<>>]
    /\ loaded' = [loaded EXCEPT ![f] = FALSE]
    /\ UNCHANGED <<last_result, max_size, persistence, file, clock, saved>>

clear_history(f) ==
    /\ operations' = [operations EXCEPT ![f] = <<>>]
    /\ ret' = Ret(f, "clear_history", <<>>, Ok(FALSE), "none")
    /\ applied' = [applied EXCEPT ![f] = <<>>]
    /\ loaded' = [loaded EXCEPT ![f] = FALSE]
    /\ UNCHANGED <<last_result, max_size, persistence, file, clock, saved>>

\* save_to_file that falls back to the shared path when the facade was given
\* no persistence file
save_to_file_unguarded(f, fault) ==
    LET r == save_history(operations[f], file, fault)
    IN  /\ file' = r.file
        /\ ret' = Ret(f, "save_to_file", <<>>, r.outcome, fault)
        /\ saved' = IF fault = "none" /\ file.state # "directory"
                    THEN [valid |-> TRUE, ops |-> operations[f],
                          prior |-> saved.prior \/
                              (saved.valid /\ saved.ops # operations[f]),
                          removed |-> FALSE]
                    ELSE IF fault = "write" /\ file.state # "directory"
                    THEN NothingSaved
                    ELSE saved
        /\ UNCHANGED <<last_result, max_size, persistence, operations,
                       clock, applied, loaded>>

save_to_file(f, fault) ==
    LET r == save_history(operations[f], file, fault)
    IN  IF ~persistence[f]
        THEN /\ ret' = Ret(f, "save_to_file", <<>>, Raise("ValueError"), "none")
             /\ fault = "none"
             /\ UNCHANGED <<last_result, max_size, persistence, operations, file,
                            clock, applied, loaded, saved>>
        ELSE /\ file' = r.file
             /\ ret' = Ret(f, "save_to_file", <<>>, r.outcome, fault)
             /\ saved' = IF fault = "none" /\ file.state # "directory"
                         THEN [valid |-> TRUE, ops |-> operations[f],
                               prior |-> saved.prior \/
                                   (saved.valid /\ saved.ops # operations[f]),
                               removed |-> FALSE]
                         ELSE IF fault = "write" /\ file.state # "directory"
                         THEN NothingSaved
                         ELSE saved
             /\ UNCHANGED <<last_result, max_size, persistence, operations,
                            clock, applied, loaded>>

\* load_from_file_log that also installs an empty result
load_from_file_log_always(ops, outcome) ==
    IF outcome.status = "ok" THEN outcome.value ELSE ops

\* self.history.operations after load_from_file, given what load_history gave
load_from_file_log(ops, outcome) ==
    IF outcome.status = "ok" /\ outcome.value # <<>> THEN outcome.value ELSE ops

\* what load_from_file gives back, given what load_history gave
load_from_file_result(outcome) ==
    IF outcome.status = "raise" THEN outcome ELSE Ok(outcome.value # <<>>)

load_from_file(f, fault) ==
    LET r == load_history(file, fault)
    IN  IF ~persistence[f]
        THEN /\ ret' = Ret(f, "load_from_file", <<>>, Raise("ValueError"), "none")
             /\ fault = "none"
             /\ UNCHANGED <<last_result, max_size, persistence, operations, file,
                            clock, applied, loaded, saved>>
        ELSE /\ operations' = [operations EXCEPT ![f] = load_from_file_log(@, r)]
             /\ ret' = Ret(f, "load_from_file", <<>>, load_from_file_result(r), fault)
             /\ loaded' = [loaded EXCEPT ![f] = @ \/ operations'[f] # operations[f]]
             /\ applied' = IF loaded'[f] THEN [applied EXCEPT ![f] = <<>>] ELSE applied
             /\ UNCHANGED <<last_result, max_size, persistence, file, clock, saved>>

\* calc.persistence.delete_file()
call_delete_file(f, fault) ==
    LET r == delete_file(file, fault)
    IN  /\ persistence[f]
        /\ file' = r.file
        /\ ret' = Ret(f, "delete_file", <<>>, r.outcome, fault)
        /\ saved' = IF r.outcome.status = "ok" /\ r.outcome.value
                    THEN [NothingSaved EXCEPT !.removed = TRUE]
                    ELSE saved
        /\ UNCHANGED <<last_result, max_size, persistence, operations, clock,
                       applied, loaded>>

\* another program replaces what the path holds
Tamper(content) ==
    /\ file # content
    /\ file' = content
    /\ ret' = Ret(0, "external", <<>>, Ok(FALSE), "none")
    /\ saved' = NothingSaved
    /\ UNCHANGED <<last_result, max_size, persistence, operations, clock,
                   applied, loaded>>

\* the persistence scenario: sessions of two facades sharing the path, the
\* first called with add, the second with square_root, so that a log holds
\* records of both operations once it was loaded from the other's file
Next ==
    \/ add(1, PyInt(4), PyInt(-1))
    \/ \E n \in Radicands : square_root(2, n)
    \/ \E f \in Facades : get_statistics(f)
    \/ \E f \in Facades : clear_history(f)
    \/ \E f \in Facades, fault \in SaveFaults : save_to_file(f, fault)
    \/ \E f \in Facades, fault \in LoadFaults : load_from_file(f, fault)
    \/ \E f \in Facades, fault \in DeleteFaults : call_delete_file(f, fault)
    \/ \E content \in ExternalFiles : Tamper(content)

Spec == Init /\ [][Next]_vars

\* the evaluator and log scenario: one facade without a persistence file
\* is called with every method
NextCalc ==
    \/ \E p \in Pairs : add(1, p[1], p[2])
    \/ \E p \in Pairs : subtract(1, p[1], p[2])
    \/ \E p \in Pairs : multiply(1, p[1], p[2])
    \/ \E p \in Pairs \cup {ZeroDivisor} : divide(1, p[1], p[2])
    \/ \E p \in Pairs \cup PowerPairs : power(1, p[1], p[2])
    \/ \E n \in Radicands : square_root(1, n)
    \/ \E count \in Counts : get_history(1, count)
    \/ get_statistics(1)
    \/ call_get_all_operations(1)
    \/ call_get_operation_count(1)
    \/ \E name \in Names : call_search_operations(1, name)
    \/ clear_history(1)
    \/ save_to_file(1, "none")
    \/ load_from_file(1, "none")

SpecCalc == InitCalc /\ [][NextCalc]_vars

\* the statistics scenario: a facade with the default capacity collects
\* int results and float results that were rounded
NextStats ==
    \/ \E p \in Pairs : add(1, p[1], p[2])
    \/ \E p \in Pairs : subtract(1, p[1], p[2])
    \/ divide(1, Tenth[1], Tenth[2])
    \/ get_statistics(1)
    \/ clear_history(1)

SpecStats == InitStats /\ [][NextStats]_vars

\* the scenario of a facade with and a facade without a persistence file:
\* both are called with the same methods while the path of the first is
\* written by it and by another program
NextMixed ==
    \/ \E f \in Facades : add(f, PyInt(4), PyInt(-1))
    \/ \E f \in Facades, n \in Radicands : square_root(f, n)
    \/ \E f \in Facades : get_history(f, 1)
    \/ \E f \in Facades : get_statistics(f)
    \/ \E f \in Facades : clear_history(f)
    \/ \E f \in Facades, fault \in SaveFaults : save_to_file(f, fault)
    \/ \E f \in Facades, fault \in LoadFaults : load_from_file(f, fault)
    \/ Tamper(File(Array(<<JunkObject>>)))

SpecMixed == InitMixed /\ [][NextMixed]_vars

(***************************************************************************)
(* Properties                                                              *)
(***************************************************************************)
Arith == {"add", "subtract", "multiply", "divide", "power", "square_root"}

\* the domain checks: a zero divisor, a negative radicand, a negative base
\* with an exponent that is not a whole number
DomainFails(call, args) ==
    \/ call = "divide" /\ args[2].num = 0 /\ args[2].den # 0
    \/ call = "square_root" /\ args[1].num < 0
    \/ call = "power" /\ args[1].num < 0 /\ args[2].den # 1

\* a call whose operands meet every precondition of the evaluator
ValidCall(call, args) ==
    /\ ~DomainFails(call, args)
    /\ call = "power" =>
          /\ args[1].den # 0
          /\ ~(args[1].num = 0 /\ args[2].num < 0)

\* new is old with exactly one record added at the tail, the head being
\* dropped or not
AddsOne(old, new) ==
    /\ Len(new) >= 1
    /\ \/ new = Append(old, new[Len(new)])
       \/ new = Tail(Append(old, new[Len(new)]))

\* the last n elements of a sequence of more than n elements, latest first
MostRecentFirst(seq, n) == [i \in 1..n |-> seq[Len(seq) + 1 - i]]

\* C1: an arithmetic call that fails its domain check raises and leaves
\* every log as it was; a valid call that follows a failed one succeeds and
\* adds exactly one record.
C1_AllOrNothing ==
    [][ /\ (ret'.call \in Arith /\ DomainFails(ret'.call, ret'.args)) =>
              (ret'.status = "raise" /\ operations' = operations)
        /\ (/\ ret.call \in Arith /\ ret.status = "raise"
            /\ ret'.call \in Arith /\ ValidCall(ret'.call, ret'.args)) =>
              /\ ret'.status = "ok"
              /\ AddsOne(operations[ret'.facade], operations'[ret'.facade])
      ]_vars

\* a domain check has just failed on a facade whose log holds records
C1_Witness ==
    /\ ret.call \in Arith
    /\ DomainFails(ret.call, ret.args)
    /\ ret.status = "raise"
    /\ operations[ret.facade] # <<>>

\* C2: the log of every facade holds at most max_size records.
C2_Capacity ==
    \A f \in Facades : Len(operations[f]) <= max_size[f]

\* C3: after N > capacity successful operations on an initially empty log,
\* count() is the capacity and recent(capacity) is the last `capacity`
\* operations, most recent first.
C3_FifoEviction ==
    \A f \in Facades :
        (~loaded[f] /\ Len(applied[f]) > max_size[f]) =>
            /\ get_operation_count(operations[f]) = max_size[f]
            /\ get_last_operations(operations[f], max_size[f])
                   = MostRecentFirst(applied[f], max_size[f])

\* more operations than a capacity of at least two have been recorded
C3_Witness ==
    \E f \in Facades :
        /\ ~loaded[f]
        /\ max_size[f] >= 2
        /\ Len(applied[f]) > max_size[f]

\* C4: a successful arithmetic call returns the result and appends exactly
\* one record; the most recent entry then has the call's name, its operands
\* in argument order and the returned result; add returns a + b.
C4_SuccessRecorded ==
    [][ (ret'.call \in Arith /\ ret'.status = "ok") =>
            LET log == operations'[ret'.facade]
                a == ret'.args[1]
                b == ret'.args[2]
            IN  /\ AddsOne(operations[ret'.facade], log)
                /\ log[Len(log)].operation = ret'.call
                /\ log[Len(log)].operands = ret'.args
                /\ log[Len(log)].result = ret'.value
                /\ last_result'[ret'.facade] = ret'.value
                /\ ret'.call = "add" =>
                      ret'.value.num * a.den * b.den
                          = (a.num * b.den + b.num * a.den) * ret'.value.den
      ]_vars

\* a division has just succeeded on a log that already held a record
C4_Witness ==
    /\ ret.call = "divide"
    /\ ret.status = "ok"
    /\ Len(operations[ret.facade]) >= 2
    /\ operations[ret.facade][Len(operations[ret.facade])].result = ret.value

\* the path holds a document that is an array of records with ISO timestamps
WellFormed(f) ==
    /\ f.state = "file"
    /\ f.doc.kind = "array"
    /\ \A i \in 1..Len(f.doc.items) :
          /\ f.doc.items[i].kind = "record"
          /\ f.doc.items[i].timestamp.typ = "str"
          /\ Len(f.doc.items[i].timestamp.text) \in {1, 2}

\* C5: a fresh facade that loads what a facade saved holds the saved log:
\* as many records, in the same order, every field equal.
C5_RoundTrip ==
    [][ (/\ ret'.call = "load_from_file"
         /\ ret'.fault = "none"
         /\ saved.valid
         /\ operations[ret'.facade] = <<>>) =>
            /\ ret'.status = "ok"
            /\ ret'.value = (saved.ops # <<>>)
            /\ operations'[ret'.facade] = saved.ops
      ]_vars

\* a facade has just loaded a saved log of records of two operations, one of
\* them stamped between two whole seconds
C5_Witness ==
    /\ ret.call = "load_from_file"
    /\ ret.status = "ok"
    /\ ret.value = TRUE
    /\ saved.valid
    /\ operations[ret.facade] = saved.ops
    /\ \E i, j \in 1..Len(saved.ops) :
          /\ saved.ops[i].operation # saved.ops[j].operation
          /\ saved.ops[i].timestamp.usec # 0

\* C6: when the path exists and its content is not an array of records, or
\* cannot be read, load() returns an empty sequence and raises nothing.
C6_LoadNeverRaises ==
    (file.state # "absent" /\ ~WellFormed(file)) =>
        \A fault \in LoadFaults :
            LET r == load_history(file, fault)
            IN  r.status = "ok" /\ r.value = <<>>

\* C7: save returns False when the write fails and True when it succeeds,
\* never raises, and leaves every log as it was.
C7_SaveReports ==
    [][ (ret'.call = "save_to_file" /\ persistence[ret'.facade]) =>
            /\ ret'.status = "ok"
            /\ ret'.value = (ret'.fault = "none" /\ file.state # "directory")
            /\ ret'.value => file'.state = "file"
            /\ operations' = operations
      ]_vars

\* a save of a log holding records has just failed
C7_Witness ==
    /\ ret.call = "save_to_file"
    /\ ret.status = "ok"
    /\ ret.value = FALSE
    /\ ret.fault # "none"
    /\ operations[ret.facade] # <<>>

\* C8: the file holds exactly the log of the most recent successful save,
\* and loading it gives that log.
C8_LastSaveWins ==
    saved.valid =>
        /\ file.state = "file"
        /\ file.doc.kind = "array"
        /\ Len(file.doc.items) = Len(saved.ops)
        /\ LET r == load_history(file, "none")
           IN  r.status = "ok" /\ r.value = saved.ops

\* a save has replaced what an earlier save of another log had written
C8_Witness ==
    /\ saved.valid
    /\ saved.prior
    /\ saved.ops # <<>>
    /\ file.state = "file"

\* the path is missing, unreadable or does not hold an array of records
BadOrMissing(f, fault) ==
    \/ f.state = "absent"
    \/ f.state = "directory"
    \/ fault = "read"
    \/ ~WellFormed(f)

\* C9: a save that fails, and a load that finds a missing, unreadable or
\* malformed file, leave every log as it was.
C9_Graceful ==
    [][ (\/ ret'.call = "save_to_file" /\ ret'.status = "ok" /\ ret'.value = FALSE
         \/ ret'.call = "load_from_file" /\ BadOrMissing(file, ret'.fault)) =>
            operations' = operations
      ]_vars

\* the records of a are records of b, in the same order
RECURSIVE IsSubseq(_, _)
IsSubseq(a, b) ==
    IF a = <<>> THEN TRUE
    ELSE IF b = <<>> THEN FALSE
    ELSE IF Head(a) = Head(b) THEN IsSubseq(Tail(a), Tail(b))
    ELSE IsSubseq(a, Tail(b))

\* what a step may do to the records of a log short of clearing it: a
\* successful arithmetic call adds one record, dropping the head or not;
\* after any other call every record is still there, unchanged and in order
Kept(f) ==
    IF ret'.call \in Arith /\ ret'.status = "ok" /\ ret'.facade = f
    THEN AddsOne(operations[f], operations'[f])
    ELSE /\ IsSubseq(operations[f], operations'[f])
         /\ ret'.call # "load_from_file" => operations'[f] = operations[f]

\* C10: no operation other than clear (and capacity eviction of the oldest
\* record) removes, replaces or alters a record of a log.  Loads are looked
\* at where the file is one a save wrote, so that no malformed document is
\* involved.
C10_Lifecycle ==
    [][ (/\ ret'.call # "clear_history"
         /\ ret'.call = "load_from_file" => saved.valid) =>
            \A f \in Facades : Kept(f) ]_vars

\* a load has just replaced the log with the records of the file
Replaced ==
    /\ ret'.call = "load_from_file"
    /\ ret'.status = "ok"
    /\ ret'.value = TRUE

\* C10 (amended): a record stays in the log, unchanged and in its place,
\* until capacity eviction removes it as the oldest record, a clear empties
\* the log, or a load_from_file that returns True replaces the whole log.
C10_LifecycleAmended ==
    [][ (ret'.call # "clear_history" /\ ~Replaced) =>
            \A f \in Facades : Kept(f) ]_vars

\* a load that returned False has just left a log holding records alone
C10_Witness ==
    /\ ret.call = "load_from_file"
    /\ ret.status = "ok"
    /\ ret.value = FALSE
    /\ operations[ret.facade] # <<>>
    /\ file.state = "file"

\* the smaller of two integers
Min(a, b) == IF a < b THEN a ELSE b

\* C11: recent(count) is empty when count <= 0 and otherwise the first
\* min(count, length) elements of all(), the log in most-recent-first order;
\* a count above the length gives the whole log.  Holds of every log and
\* every count, and of what get_history has just returned.
C11_Recent ==
    /\ \A f \in Facades : \A count \in (0 - 2)..(MaxCapacity + 2) :
          LET ops == operations[f]
              all == get_all_operations(ops)
              got == get_last_operations(ops, count)
          IN  /\ Len(all) = Len(ops)
              /\ \A i \in 1..Len(ops) : all[i] = ops[Len(ops) + 1 - i]
              /\ count <= 0 => got = <<>>
              /\ count > 0 => got = SubSeq(all, 1, Min(count, Len(ops)))
              /\ count > Len(ops) => got = all
    /\ ret.call = "get_history" =>
          LET all == get_all_operations(operations[ret.facade])
              count == ret.args[1].num
          IN  ret.value = IF count <= 0 THEN <<>>
                          ELSE SubSeq(all, 1, Min(count, Len(all)))

\* get_history(1) has just returned the latest of two records
C11_Witness ==
    /\ ret.call = "get_history"
    /\ ret.args[1].num = 1
    /\ Len(operations[ret.facade]) = 2
    /\ operations[ret.facade][1] # operations[ret.facade][2]
    /\ ret.value = <<operations[ret.facade][2]>>

\* indices of the records of a log that carry the tag
Tagged(ops, name) == { i \in 1..Len(ops) : ops[i].operation = name }

\* C12: search(name) returns exactly the records of the log whose tag is
\* name, each once, the most recent first; as many as an independent count
\* of the records with that tag, none when no record has it.
C12_Search ==
    \A f \in Facades : \A name \in Names :
        LET ops == operations[f]
            idx == Tagged(ops, name)
            r == search_operations(ops, name)
        IN  /\ r.status = "ok"
            /\ Len(r.value) = Cardinality(idx)
            /\ \A k \in 1..Len(r.value) :
                  \E i \in idx : /\ Cardinality({ j \in idx : j > i }) = k - 1
                                 /\ r.value[k] = ops[i]

\* the calls that read the log
Queries == { "get_history", "get_all_operations", "search_operations",
             "get_operation_count", "get_statistics" }

\* C13: a query (recent, all, search, count, statistics) leaves every log
\* (records, order, length) and every last result as they were, and a query
\* repeated with nothing in between gives the answer it gave before.
C13_QueriesReadOnly ==
    [][ ret'.call \in Queries =>
            /\ operations' = operations
            /\ last_result' = last_result
            /\ (/\ ret.call = ret'.call
                 /\ ret.facade = ret'.facade
                 /\ ret.args = ret'.args) =>
                    (ret'.status = ret.status /\ ret'.value = ret.value)
      ]_vars

\* a search has just found one of the two different records of a log, after
\* an evaluation that left a last result other than 0
C13_Witness ==
    /\ ret.call = "search_operations"
    /\ ret.status = "ok"
    /\ Len(ret.value) = 1
    /\ Len(operations[ret.facade]) = 2
    /\ operations[ret.facade][1].operation # operations[ret.facade][2].operation
    /\ last_result[ret.facade] # Zero

\* two numbers have the same value
SameValue(a, b) == a.num * b.den = b.num * a.den

\* C14: statistics of an empty log are total 0, an empty by-operation
\* mapping and None for average, max and min; of a non-empty log, total is
\* count(), average times total is the sum of the results, max and min are
\* the largest and the smallest result, and min <= average <= max.
C14_Statistics ==
    \A f \in Facades :
        LET ops == operations[f]
            r == History_get_statistics(ops)
            results == [i \in 1..Len(ops) |-> ops[i].result]
        IN  /\ r.status = "ok"
            /\ ops = <<>> =>
                  /\ r.value.total_operations = 0
                  /\ DOMAIN r.value.operation_types = {}
                  /\ r.value.average_result = None
                  /\ r.value.max_result = None
                  /\ r.value.min_result = None
            /\ ops # <<>> =>
                  LET avg == r.value.average_result
                      hi == r.value.max_result
                      lo == r.value.min_result
                      n == r.value.total_operations
                  IN  /\ n = get_operation_count(ops)
                      /\ SameValue(Mk("float", avg.num * n, avg.den),
                                   py_sum(Zero, results))
                      /\ \E i \in 1..Len(ops) : hi = results[i]
                      /\ \E i \in 1..Len(ops) : lo = results[i]
                      /\ \A i \in 1..Len(ops) :
                            ~Less(hi, results[i]) /\ ~Less(results[i], lo)
                      /\ ~Less(avg, lo)
                      /\ ~Less(hi, avg)

\* C15: while the path does not exist, exists() is false, size_bytes() is 0
\* and load() gives an empty sequence; a load raises nothing, reports that
\* nothing was loaded, and leaves the path absent and every log as it was.
C15_AbsentFile ==
    [][ file.state = "absent" =>
            /\ ~file_exists(file)
            /\ get_file_size(file) = 0
            /\ \A fault \in LoadFaults : load_history(file, fault) = Ok(<<>>)
            /\ ret'.call = "load_from_file" =>
                  /\ ret'.status = "ok"
                  /\ ret'.value = FALSE
                  /\ file' = file
                  /\ operations' = operations
      ]_vars

\* a facade whose log holds records has just loaded from a path that a
\* delete had removed
C15_Witness ==
    /\ ret.call = "load_from_file"
    /\ ret.status = "ok"
    /\ ret.value = FALSE
    /\ file.state = "absent"
    /\ saved.removed
    /\ operations[ret.facade] # <<>>

\* what delete does: a path that exists is removed and True returned, an
\* absent path gives False and stays absent, a failing removal gives False
\* and raises nothing; no log changes
DeleteReports ==
    ret'.call = "delete_file" =>
        /\ ret'.status = "ok"
        /\ operations' = operations
        /\ ~file_exists(file) => (ret'.value = FALSE /\ file' = file)
        /\ (file_exists(file) /\ (ret'.fault = "unlink" \/ file.state = "directory"))
              => (ret'.value = FALSE /\ file' = file)
        /\ (file.state = "file" /\ ret'.fault = "none")
              => (ret'.value = TRUE /\ ~file_exists(file'))

\* C16: delete removes an existing path and reports success, reports that
\* nothing was deleted when the path is absent, reports failure without
\* raising on an I/O fault, and never changes a log; once removed, the path
\* stays absent until a save succeeds (steps of other programs aside).
C16_Delete ==
    [][ /\ DeleteReports
        /\ (saved.removed /\ file_exists(file') /\ ret'.call # "external") =>
              (ret'.call = "save_to_file" /\ ret'.value = TRUE)
      ]_vars

\* C16 (amended): as C16, but once removed the path stays absent until a
\* save opens it for writing, whether the save then succeeds or fails
\* after the file was created.
C16_DeleteAmended ==
    [][ /\ DeleteReports
        /\ (saved.removed /\ file_exists(file') /\ ret'.call # "external") =>
              /\ ret'.call = "save_to_file"
              /\ ret'.fault # "open"
              /\ ret'.value = (ret'.fault = "none")
        /\ (saved.removed /\ ret'.call = "save_to_file" /\ ret'.value = TRUE) =>
              file_exists(file')
      ]_vars

\* a delete has just removed the file that the save of a log holding
\* records had written
C16_Witness ==
    /\ ret.call = "delete_file"
    /\ ret.status = "ok"
    /\ ret.value = TRUE
    /\ ~file_exists(file)
    /\ saved.removed
    /\ operations[ret.facade] # <<>>

\* every query of the log answers as for a log without records
AnswersEmpty(ops) ==
    /\ get_operation_count(ops) = 0
    /\ get_all_operations(ops) = <<>>
    /\ \A count \in Counts : get_last_operations(ops, count) = <<>>
    /\ \A name \in Names : search_operations(ops, name) = Ok(<<>>)
    /\ LET r == History_get_statistics(ops)
       IN  /\ r.status = "ok"
           /\ r.value.total_operations = 0
           /\ DOMAIN r.value.operation_types = {}
           /\ r.value.average_result = None
           /\ r.value.max_result = None
           /\ r.value.min_result = None

\* C17: clear empties the log whatever it held: count() is 0, recent, all
\* and search are empty, statistics are those of the empty log, and the
\* other logs are as they were; the next successful call on the emptied log
\* returns the right result and leaves exactly its record in the log.
C17_Clear ==
    [][ /\ ret'.call = "clear_history" =>
              /\ ret'.status = "ok"
              /\ AnswersEmpty(operations'[ret'.facade])
              /\ \A g \in Facades \ {ret'.facade} : operations'[g] = operations[g]
        /\ (/\ ret'.call \in Arith
            /\ ret'.status = "ok"
            /\ operations[ret'.facade] = <<>>) =>
              LET log == operations'[ret'.facade]
                  v == ret'.value
              IN  /\ Len(log) = 1
                  /\ log[1].operation = ret'.call
                  /\ log[1].operands = ret'.args
                  /\ log[1].result = v
                  /\ ret'.call = "add" =>
                        v.num * ret'.args[1].den * ret'.args[2].den
                            = (ret'.args[1].num * ret'.args[2].den
                               + ret'.args[2].num * ret'.args[1].den) * v.den
                  /\ ret'.call = "square_root" =>
                        v.num * v.num * ret'.args[1].den
                            = ret'.args[1].num * v.den * v.den
      ]_vars

\* a clear has just emptied the log of a facade that had evaluated
\* something, while the other facade's log holds records
C17_Witness ==
    /\ ret.call = "clear_history"
    /\ operations[ret.facade] = <<>>
    /\ last_result[ret.facade] # Zero
    /\ \E g \in Facades : operations[g] # <<>>

\* C18: the last result of a facade's evaluator is 0 until an arithmetic
\* call succeeds, then the value the latest successful arithmetic call on
\* that facade returned; a failed call, clear_history, a query, a save, a
\* load or any call on another facade leaves it as it was.
C18_LastResult ==
    [][ /\ clock = 0 => \A f \in Facades : last_result[f] = Zero
        /\ \A f \in Facades :
              IF ret'.facade = f /\ ret'.call \in Arith /\ ret'.status = "ok"
              THEN last_result'[f] = ret'.value
              ELSE last_result'[f] = last_result[f]
      ]_vars

\* a load has just replaced the log of a facade with records of results
\* other than the one its evaluator returned last
C18_Witness ==
    /\ ret.call = "load_from_file"
    /\ ret.status = "ok"
    /\ ret.value = TRUE
    /\ last_result[ret.facade] # Zero
    /\ \A i \in 1..Len(operations[ret.facade]) :
          operations[ret.facade][i].result # last_result[ret.facade]

\* the path can be read and holds an array of at least one record
YieldsRecords(f, fault) ==
    /\ WellFormed(f)
    /\ fault = "none"
    /\ f.doc.items # <<>>

\* C19: load_from_file returns True exactly when the file yields at least
\* one record, and the log is then the records of the file; when the file is
\* absent, fails to load or holds an empty array it returns False and the
\* log is kept as it was.
C19_LoadResult ==
    [][ (ret'.call = "load_from_file" /\ persistence[ret'.facade]) =>
            LET f == ret'.facade
                items == file.doc.items
            IN  /\ ret'.status = "ok"
                /\ ret'.value = YieldsRecords(file, ret'.fault)
                /\ YieldsRecords(file, ret'.fault) =>
                      /\ Len(operations'[f]) = Len(items)
                      /\ \A i \in 1..Len(items) :
                            operations'[f][i] =
                                [items[i] EXCEPT !.timestamp =
                                    fromisoformat(items[i].timestamp).value]
                /\ ~YieldsRecords(file, ret'.fault) =>
                      operations'[f] = operations[f]
                /\ \A g \in Facades \ {f} : operations'[g] = operations[g]
      ]_vars

\* the sum of the values a mapping gives to the keys in S
RECURSIVE SumOver(_, _)
SumOver(m, S) ==
    IF S = {} THEN 0
    ELSE LET k == CHOOSE k \in S : TRUE
         IN  m[k] + SumOver(m, S \ {k})

\* C20: the by-operation mapping of the statistics has a key for exactly
\* the tags that occur in the log, the value of a tag is the length of
\* search(tag), and the values add up to total, which is count().
C20_StatisticsAgreeWithSearch ==
    \A f \in Facades :
        LET ops == operations[f]
            st == History_get_statistics(ops)
            types == st.value.operation_types
        IN  /\ st.status = "ok"
            /\ DOMAIN types = { ops[i].operation : i \in 1..Len(ops) }
            /\ \A t \in DOMAIN types \cup Names :
                  LET found == search_operations(ops, t)
                  IN  /\ found.status = "ok"
                      /\ t \in DOMAIN types => types[t] = Len(found.value)
                      /\ t \notin DOMAIN types => found.value = <<>>
            /\ SumOver(types, DOMAIN types) = st.value.total_operations
            /\ st.value.total_operations = get_operation_count(ops)

\* the records of a log without their timestamps
Unstamped(ops) ==
    [i \in 1..Len(ops) |-> [operation |-> ops[i].operation,
                            operands |-> ops[i].operands,
                            result |-> ops[i].result]]

\* two sequences of records were made by the same calls in the same order
SameCalls(a, b) ==
    /\ Len(a) = Len(b)
    /\ \A i \in 1..Len(a) : /\ a[i].operation = b[i].operation
                             /\ a[i].operands = b[i].operands

\* C21: on a facade without a persistence file save_to_file and
\* load_from_file raise ValueError from every state and leave the path, every
\* log and every last result as they were, and no call on such a facade
\* changes the path; after the same successful calls since its log was last
\* empty, such a facade holds the records (timestamps aside) and gives the
\* statistics and the recent operations of a facade with a persistence file
\* whose log was not loaded.
C21_NoPersistence ==
    /\ [][ (ret'.facade \in Facades /\ ~persistence[ret'.facade]) =>
               /\ file' = file
               /\ saved' = saved
               /\ ret'.call \in {"save_to_file", "load_from_file"} =>
                     /\ ret'.status = "raise"
                     /\ ret'.exc = "ValueError"
                     /\ operations' = operations
                     /\ last_result' = last_result
          ]_vars
    /\ [](\A f, g \in Facades :
             (/\ persistence[f]
              /\ ~persistence[g]
              /\ ~loaded[f]
              /\ SameCalls(applied[f], applied[g])) =>
                 /\ Unstamped(operations[g]) = Unstamped(operations[f])
                 /\ History_get_statistics(operations[g])
                        = History_get_statistics(operations[f])
                 /\ \A count \in Counts :
                        Unstamped(get_last_operations(operations[g], count))
                            = Unstamped(get_last_operations(operations[f], count)))

\* a save has just been rejected on a facade without a persistence file
\* whose log holds records, while the path holds the records saved by the
\* other facade after the same calls
C21_Witness ==
    /\ ret.call = "save_to_file"
    /\ ret.facade \in Facades
    /\ ~persistence[ret.facade]
    /\ ret.status = "raise"
    /\ operations[ret.facade] # <<>>
    /\ file_exists(file)
    /\ saved.valid
    /\ saved.ops # <<>>
    /\ \E f \in Facades :
          /\ persistence[f]
          /\ ~loaded[f]
          /\ saved.ops = operations[f]
          /\ SameCalls(applied[f], applied[ret.facade])

====
